---- MODULE Spec2Model ----
(***************************************************************************)
(* Query orchestration engine of the financial assistant                   *)
(* (app/langgraph_agents/supervisor.py): router -> capability nodes ->     *)
(* synthesizer, run as a LangGraph StateGraph by process_query.            *)
(*                                                                         *)
(* Texts (queries, handler responses, prompts) are sequences of tokens, so *)
(* that concatenation and "contains verbatim" are structural.  The reply   *)
(* of the classification oracle is a sequence of tokens: a code fence, a   *)
(* code fence with the json tag, free prose, or the text of one JSON value.*)
(***************************************************************************)
EXTENDS Integers, Sequences, FiniteSets, TLC

(* ------------------------------ bounds --------------------------------- *)

\* longest agents_to_call list the classification oracle replies with
MaxListLen == 4

\* longest agents_to_call list in a reply that wraps the JSON in fences or prose
MaxWrappedListLen == 2

(* ------------------------- program constants --------------------------- *)

valid_agents == <<"analyst", "knowledge", "planner", "transaction">>

recursion_limit == 15

FALLBACK_REASONING == "Fallback to analyst due to parsing error"

CONTEXT_PREFIX == <<"\n\n[CONTEXT: A transaction was just recorded. Details: ">>

CONTEXT_SUFFIX ==
    <<"]\n", "Your task: Check if the user has any goals related to this purchase and update goal progress if applicable. First call get_goals_status to see all goals.">>

\* Optional[T]: None is the empty sequence, a value x is <<x>>
None == <<>>

Some(x) == <<x>>

(* ------------------------------ helpers -------------------------------- *)

\* Python: a in l
InList(a, l) == \E i \in DOMAIN l : l[i] = a

\* variant: only the first occurrence of x is removed
Without_first(l, x) ==
    IF \E i \in DOMAIN l : l[i] = x
    THEN LET i == CHOOSE k \in DOMAIN l : l[k] = x /\ \A j \in 1..(k - 1) : l[j] # x
         IN  SubSeq(l, 1, i - 1) \o SubSeq(l, i + 1, Len(l))
    ELSE l

\* Python: [a for a in l if a != x]
Without(l, x) == SelectSeq(l, LAMBDA a : a # x)

\* Python: needle in haystack, for texts
IsSubstring(needle, hay) ==
    \E i \in 0..(Len(hay) - Len(needle)) :
        SubSeq(hay, i + 1, i + Len(needle)) = needle

AgentIds == {valid_agents[i] : i \in DOMAIN valid_agents}

(* --------------------- the classification oracle's reply --------------- *)

\* values agents_to_call can decode to
ListVal(items) == [kind |-> "list", items |-> items]

AgentElems == AgentIds \cup {"foo"}

RECURSIVE SeqsUpTo(_, _)
SeqsUpTo(S, n) ==
    IF n = 0 THEN {<<>>}
    ELSE LET shorter == SeqsUpTo(S, n - 1)
         IN  shorter \cup {Append(s, e) : s \in {t \in shorter : Len(t) = n - 1}, e \in S}

AgentsValues ==
    {ListVal(l) : l \in SeqsUpTo(AgentElems, MaxListLen)}
    \cup {ListVal(<<"num:42", "planner">>),
          \* a JSON string: iterating it yields its characters
          [kind |-> "string", items |-> <<"p", "l", "a", "n", "n", "e", "r">>],
          \* a JSON object: iterating it yields its keys
          [kind |-> "object", items |-> <<"planner">>],
          [kind |-> "number", items |-> <<>>],
          [kind |-> "null", items |-> <<>>]}

NoAgents == [kind |-> "null", items |-> <<>>]

JsonObject(has_agents, agents, has_reasoning, reasoning) ==
    [kind |-> "object", has_agents |-> has_agents, agents |-> agents,
     has_reasoning |-> has_reasoning, reasoning |-> reasoning]

JsonScalar(kind) ==
    [kind |-> kind, has_agents |-> FALSE, agents |-> NoAgents,
     has_reasoning |-> FALSE, reasoning |-> ""]

JsonValues ==
    {JsonObject(TRUE, av, hr, IF hr THEN "why" ELSE "") :
        av \in AgentsValues, hr \in BOOLEAN}
    \cup {JsonObject(FALSE, NoAgents, hr, IF hr THEN "why" ELSE "") : hr \in BOOLEAN}
    \cup {JsonScalar(k) : k \in {"array", "string", "number", "null"}}

\* tokens of the reply text; "fence" is three backticks, "fence:json" three
\* backticks directly followed by json
FENCE_JSON == [t |-> "fence:json", v |-> JsonScalar("null")]

FENCE == [t |-> "fence", v |-> JsonScalar("null")]

Prose(w) == [t |-> w, v |-> JsonScalar("null")]

Json(v) == [t |-> "json-text", v |-> v]

\* the ways a reply can wrap the text of a JSON value
Layouts(j) ==
    { <<FENCE_JSON, Json(j), FENCE>>,
      <<FENCE, Json(j), FENCE>>,
      <<Prose("Sure:"), FENCE_JSON, Json(j), FENCE, Prose("Done.")>>,
      <<Prose("Sure:"), FENCE, Json(j), FENCE, Prose("Done.")>>,
      <<FENCE_JSON, Json(j)>>,
      <<Prose("Sure:"), Json(j)>> }

\* every JSON value bare; the values with a short list also wrapped
OracleReplies ==
    { <<Json(j)>> : j \in JsonValues }
    \cup UNION {Layouts(j) : j \in {v \in JsonValues : Len(v.agents.items) <= MaxWrappedListLen}}
    \cup { <<>>, <<Prose("I would use the analyst")>>, <<FENCE>>,
           <<FENCE_JSON, Prose("analyst"), FENCE>> }

(* ------------------------------ router --------------------------------- *)

\* does token tok end a piece of content.split(sep)?  Splitting on the bare
\* fence also matches the fence of a json-tagged fence.
Matches(tok, sep) ==
    IF sep = "fence:json" THEN tok.t = "fence:json"
    ELSE tok.t \in {"fence", "fence:json"}

\* Python: sep in content
Contains(content, sep) == \E i \in DOMAIN content : Matches(content[i], sep)

\* Python: content.split(sep); the tag of a json-tagged fence that was matched
\* as a bare fence stays in the text as the first word of the next piece
RECURSIVE split(_, _)
split(content, sep) ==
    IF content = <<>> THEN << <<>> >>
    ELSE LET h == Head(content)
             rest == split(Tail(content), sep)
         IN  IF Matches(h, sep)
             THEN << <<>> >>
                  \o << (IF h.t # sep THEN <<Prose("json")>> ELSE <<>>) \o Head(rest) >>
                  \o Tail(rest)
             ELSE << <<h>> \o Head(rest) >> \o Tail(rest)

\* variant: only a json-tagged fence is stripped
extract_json_tagged_only(content) ==
    IF Contains(content, "fence:json")
    THEN LET after == split(content, "fence:json")
         IN  IF Len(after) < 2 THEN [raised |-> "IndexError", text |-> <<>>]
             ELSE [raised |-> "none", text |-> split(after[2], "fence")[1]]
    ELSE [raised |-> "none", text |-> content]

\* supervisor.py 92-97: the text handed to json.loads, or IndexError
extract_json(content) ==
    IF Contains(content, "fence:json")
    THEN LET after == split(content, "fence:json")
         IN  IF Len(after) < 2 THEN [raised |-> "IndexError", text |-> <<>>]
             ELSE [raised |-> "none", text |-> split(after[2], "fence")[1]]
    ELSE IF Contains(content, "fence")
    THEN LET after == split(content, "fence")
         IN  IF Len(after) < 2 THEN [raised |-> "IndexError", text |-> <<>>]
             ELSE [raised |-> "none", text |-> split(after[2], "fence")[1]]
    ELSE [raised |-> "none", text |-> content]

\* json.loads(text.strip()): succeeds exactly on the text of one JSON value
json_loads(text) ==
    IF Len(text) = 1 /\ text[1].t = "json-text"
    THEN [raised |-> "none", value |-> text[1].v]
    ELSE [raised |-> "JSONDecodeError", value |-> JsonScalar("null")]

\* variant: the except clause defaults the plan but leaves no reasoning
router_decision_silent_default(content) ==
    LET ex == extract_json(content)
        dec == json_loads(ex.text)
    IN  IF ex.raised = "IndexError" \/ dec.raised = "JSONDecodeError"
        THEN [raised |-> "none", agents_to_call |-> ListVal(<<"analyst">>),
              reasoning |-> ""]
        ELSE IF dec.value.kind # "object"
        THEN [raised |-> "AttributeError", agents_to_call |-> NoAgents, reasoning |-> ""]
        ELSE [raised |-> "none",
              agents_to_call |-> IF dec.value.has_agents THEN dec.value.agents
                                 ELSE ListVal(<<"analyst">>),
              reasoning |-> IF dec.value.has_reasoning THEN dec.value.reasoning ELSE ""]

\* supervisor.py 90-105: the try block and its except clause
router_decision(content) ==
    LET ex == extract_json(content)
        dec == json_loads(ex.text)
    IN  IF ex.raised = "IndexError" \/ dec.raised = "JSONDecodeError"
        THEN [raised |-> "none", agents_to_call |-> ListVal(<<"analyst">>),
              reasoning |-> FALLBACK_REASONING]
        ELSE IF dec.value.kind # "object"
        THEN \* decision.get on a list, str, number or None
             [raised |-> "AttributeError", agents_to_call |-> NoAgents, reasoning |-> ""]
        ELSE [raised |-> "none",
              agents_to_call |-> IF dec.value.has_agents THEN dec.value.agents
                                 ELSE ListVal(<<"analyst">>),
              reasoning |-> IF dec.value.has_reasoning THEN dec.value.reasoning ELSE ""]

\* variant: the membership filter is missing
validate_agents_keeps_unknown(agents_to_call) ==
    IF agents_to_call.kind \in {"number", "null"}
    THEN [raised |-> "TypeError", agents |-> <<>>]
    ELSE [raised |-> "none",
          agents |-> IF agents_to_call.items = <<>> THEN <<"analyst">>
                     ELSE agents_to_call.items]

\* supervisor.py 108-112: the filter and the default
validate_agents(agents_to_call) ==
    IF agents_to_call.kind \in {"number", "null"}
    THEN \* iterating a number or None
         [raised |-> "TypeError", agents |-> <<>>]
    ELSE LET kept == SelectSeq(agents_to_call.items, LAMBDA a : InList(a, valid_agents))
         IN  [raised |-> "none", agents |-> IF kept = <<>> THEN <<"analyst">> ELSE kept]

\* variant: an object without agents_to_call is treated as a decode failure
router_node_missing_field_as_failure(state, content) ==
    LET d == router_decision(content)
        v == validate_agents(d.agents_to_call)
        dec == json_loads(extract_json(content).text)
        missing == dec.raised = "none" /\ dec.value.kind = "object"
                   /\ ~dec.value.has_agents
    IN  IF d.raised # "none" THEN [raised |-> d.raised, state |-> state, log |-> None]
        ELSE IF v.raised # "none" THEN [raised |-> v.raised, state |-> state, log |-> None]
        ELSE [raised |-> "none",
              log |-> Some([agents_to_call |-> v.agents,
                            reasoning |-> IF missing THEN FALLBACK_REASONING
                                          ELSE d.reasoning]),
              state |-> [state EXCEPT
                            !.pending_agents = v.agents,
                            !.completed_agents = <<>>,
                            !.next_agent = IF v.agents # <<>> THEN Some(v.agents[1])
                                           ELSE None]]

\* supervisor.py 75-121, from the oracle's reply on
router_node(state, content) ==
    LET d == router_decision(content)
        v == validate_agents(d.agents_to_call)
    IN  IF d.raised # "none" THEN [raised |-> d.raised, state |-> state, log |-> None]
        ELSE IF v.raised # "none" THEN [raised |-> v.raised, state |-> state, log |-> None]
        ELSE [raised |-> "none",
              log |-> Some([agents_to_call |-> v.agents, reasoning |-> d.reasoning]),
              state |-> [state EXCEPT
                            !.pending_agents = v.agents,
                            !.completed_agents = <<>>,
                            !.next_agent = IF v.agents # <<>> THEN Some(v.agents[1])
                                           ELSE None]]

(* ----------------------------- inputs ---------------------------------- *)

\* the user id chat_message resolves the request to; 0 stands for the falsy
\* outcome: no user_id in the request and get_user_id found no such phone number
UserIds == {0, 1}

Queries == {<<"I spent 500 on a charger for my gaming PC">>, <<"hi">>}

\* what run_<agent> returns: the last AI message's text ("" when there is
\* none) and the names of the tools called
ToolOf(agent) ==
    CASE agent = "analyst" -> <<"analyze_spending">>
      [] agent = "knowledge" -> <<"search_knowledge_base">>
      [] agent = "planner" -> <<"get_goals_status">>
      [] agent = "transaction" -> <<"add_expense">>

HandlerResults(agent) ==
    {[response |-> r, tool_calls |-> ToolOf(agent), sources |-> <<>>] :
        r \in {<<>>, <<"reply of", agent>>}}

MergeReplies == {<<"merged reply">>, <<>>}

(* ------------------------- session state and nodes --------------------- *)

VARIABLES
    state,            \* the AgentState dict of the running graph
    pc,               \* node the graph is at: "router", an agent id, "synthesizer", "END", "returned", "raised"
    awaiting,         \* the await the current node is suspended in, or "none"
    steps,            \* graph steps (node executions) completed
    router_response,  \* the reply router_node received, until the next node starts
    router_log,       \* what router_node printed: agents_to_call and reasoning
    calls,            \* handler invocations so far: agent, user_id, query, outcome
    oracle_calls,     \* oracle invocations so far: which oracle, its input, the outcome
    raised,           \* the exception that left process_query, or "none"
    result,           \* what process_query returned
    chat_response,    \* the ChatResponse the /api/chat/message endpoint returned
    store,            \* the committed rows of the SQLite file the sessions share
    conn,             \* per database call in progress: its function, arguments and fetched row
    handler,          \* one run of a capability handler's reasoning loop
    sessions          \* the process_query calls running at the same time, by session

vars == <<state, pc, awaiting, steps, router_response, router_log, calls,
          oracle_calls, raised, result, chat_response, store, conn, handler,
          sessions>>

\* the variables of one chat request and its session
session_vars == <<state, pc, awaiting, steps, router_response, router_log, calls,
                  oracle_calls, raised, result, chat_response>>

\* the variables of the persistent store and the calls working on it
db_vars == <<store, conn>>

\* what a step of the chat session, of a database call, of a handler run and
\* of the concurrent sessions leaves alone
outside_session == <<db_vars, handler, sessions>>

outside_store == <<session_vars, handler, sessions>>

outside_handler == <<session_vars, db_vars, sessions>>

outside_sessions == <<session_vars, db_vars, handler>>

\* variant: the dict holds one slot that every assignment rewrites
DictSet_replaces_last(d, k, v) ==
    IF d = <<>>
    THEN <<[key |-> k, value |-> v]>>
    ELSE [d EXCEPT ![Len(d)] = [key |-> k, value |-> v]]

\* Python dict assignment d[k] = v: a new key goes last, an existing key keeps its place
DictSet(d, k, v) ==
    IF \E i \in DOMAIN d : d[i].key = k
    THEN [i \in DOMAIN d |-> IF d[i].key = k THEN [key |-> k, value |-> v] ELSE d[i]]
    ELSE Append(d, [key |-> k, value |-> v])

DictHas(d, k) == \E i \in DOMAIN d : d[i].key = k

DictGet(d, k) == d[CHOOSE i \in DOMAIN d : d[i].key = k].value

\* supervisor.py 362-372
initial_state(user_id, query) ==
    [messages |-> <<>>, user_id |-> user_id, raw_query |-> query,
     next_agent |-> None, pending_agents |-> <<>>, completed_agents |-> <<>>,
     agent_outputs |-> <<>>, final_response |-> None, error |-> None]

\* variant: pending[-1] if pending else None
HeadOrNone_last(pending) == IF pending # <<>> THEN Some(pending[Len(pending)]) ELSE None

\* pending[0] if pending else None
HeadOrNone(pending) == IF pending # <<>> THEN Some(pending[1]) ELSE None

\* the query each node passes to its handler
analyst_query(st) == st.raw_query

knowledge_query(st) == st.raw_query

\* variant: the transaction handler is told what the planner answered
transaction_query_with_planner(st) ==
    IF DictHas(st.agent_outputs, "planner")
    THEN st.raw_query \o DictGet(st.agent_outputs, "planner").response
    ELSE st.raw_query

transaction_query(st) == st.raw_query

\* variant: the context block leaves out the transaction's response
planner_query_without_details(st) ==
    LET context ==
            IF DictHas(st.agent_outputs, "transaction")
            THEN CONTEXT_PREFIX \o CONTEXT_SUFFIX
            ELSE <<>>
    IN  st.raw_query \o context

\* supervisor.py 184-193
planner_query(st) ==
    LET context ==
            IF DictHas(st.agent_outputs, "transaction")
            THEN CONTEXT_PREFIX \o DictGet(st.agent_outputs, "transaction").response
                 \o CONTEXT_SUFFIX
            ELSE <<>>
    IN  st.raw_query \o context

\* variant: the node clears pending_agents
analyst_node_drops_pending(st, res) ==
    [st EXCEPT
        !.agent_outputs = DictSet(@, "analyst",
            [response |-> res.response, tool_calls |-> res.tool_calls]),
        !.completed_agents = Append(@, "analyst"),
        !.pending_agents = <<>>,
        !.next_agent = None]

\* supervisor.py 131-148
analyst_node(st, res) ==
    LET pending == Without(st.pending_agents, "analyst")
    IN  [st EXCEPT
            !.agent_outputs = DictSet(@, "analyst",
                [response |-> res.response, tool_calls |-> res.tool_calls]),
            !.completed_agents = Append(@, "analyst"),
            !.pending_agents = pending,
            !.next_agent = HeadOrNone(pending)]

\* variant: the node does not take itself out of pending_agents
knowledge_node_stays_pending(st, res) ==
    [st EXCEPT
        !.agent_outputs = DictSet(@, "knowledge",
            [response |-> res.response, tool_calls |-> res.tool_calls,
             sources |-> res.sources]),
        !.completed_agents = Append(@, "knowledge"),
        !.next_agent = HeadOrNone(st.pending_agents)]

\* supervisor.py 158-175
knowledge_node(st, res) ==
    LET pending == Without(st.pending_agents, "knowledge")
    IN  [st EXCEPT
            !.agent_outputs = DictSet(@, "knowledge",
                [response |-> res.response, tool_calls |-> res.tool_calls,
                 sources |-> res.sources]),
            !.completed_agents = Append(@, "knowledge"),
            !.pending_agents = pending,
            !.next_agent = HeadOrNone(pending)]

\* variant: the node leaves next_agent as the router set it
planner_node_keeps_next(st, res) ==
    LET pending == Without(st.pending_agents, "planner")
    IN  [st EXCEPT
            !.agent_outputs = DictSet(@, "planner",
                [response |-> res.response, tool_calls |-> res.tool_calls]),
            !.completed_agents = Append(@, "planner"),
            !.pending_agents = pending]

\* supervisor.py 196-212
planner_node(st, res) ==
    LET pending == Without(st.pending_agents, "planner")
    IN  [st EXCEPT
            !.agent_outputs = DictSet(@, "planner",
                [response |-> res.response, tool_calls |-> res.tool_calls]),
            !.completed_agents = Append(@, "planner"),
            !.pending_agents = pending,
            !.next_agent = HeadOrNone(pending)]

\* variant: the node puts itself at the front of completed_agents
transaction_node_prepends(st, res) ==
    LET pending == Without(st.pending_agents, "transaction")
    IN  [st EXCEPT
            !.agent_outputs = DictSet(@, "transaction",
                [response |-> res.response, tool_calls |-> res.tool_calls]),
            !.completed_agents = <<"transaction">> \o @,
            !.pending_agents = pending,
            !.next_agent = HeadOrNone(pending)]

\* supervisor.py 222-238
transaction_node(st, res) ==
    LET pending == Without(st.pending_agents, "transaction")
    IN  [st EXCEPT
            !.agent_outputs = DictSet(@, "transaction",
                [response |-> res.response, tool_calls |-> res.tool_calls]),
            !.completed_agents = Append(@, "transaction"),
            !.pending_agents = pending,
            !.next_agent = HeadOrNone(pending)]

\* variant: the planner is given the context block whatever agent_outputs holds
NodeQuery_planner_context_always(agent, st) ==
    CASE agent = "analyst" -> analyst_query(st)
      [] agent = "knowledge" -> knowledge_query(st)
      [] agent = "planner" ->
            IF DictHas(st.agent_outputs, "transaction") THEN planner_query(st)
            ELSE st.raw_query \o CONTEXT_PREFIX \o CONTEXT_SUFFIX
      [] agent = "transaction" -> transaction_query(st)

\* the dispatch table of create_supervisor_graph (add_node)
NodeQuery(agent, st) ==
    CASE agent = "analyst" -> analyst_query(st)
      [] agent = "knowledge" -> knowledge_query(st)
      [] agent = "planner" -> planner_query(st)
      [] agent = "transaction" -> transaction_query(st)

NodeResult(agent, st, res) ==
    CASE agent = "analyst" -> analyst_node(st, res)
      [] agent = "knowledge" -> knowledge_node(st, res)
      [] agent = "planner" -> planner_node(st, res)
      [] agent = "transaction" -> transaction_node(st, res)

\* variant: an id that is not a node name (here the planner's) goes to the synthesizer
determine_next_node_unknown_to_synthesizer(st) ==
    IF st.next_agent # None /\ st.next_agent[1] \notin {"", "planner"}
    THEN st.next_agent[1]
    ELSE "synthesizer"

\* supervisor.py 275-282; None and "" are both falsy
determine_next_node(st) ==
    IF st.next_agent # None /\ st.next_agent[1] # ""
    THEN st.next_agent[1]
    ELSE "synthesizer"

\* str.upper() on the capability ids
Upper(agent) ==
    CASE agent = "analyst" -> "ANALYST"
      [] agent = "knowledge" -> "KNOWLEDGE"
      [] agent = "planner" -> "PLANNER"
      [] agent = "transaction" -> "TRANSACTION"

\* Python: sep.join(texts)
RECURSIVE Join(_, _)
Join(texts, sep) ==
    IF texts = <<>> THEN <<>>
    ELSE IF Len(texts) = 1 THEN texts[1]
    ELSE texts[1] \o sep \o Join(Tail(texts), sep)

\* variant: the blocks are joined last entry first
combined_data_reversed(agent_outputs) ==
    Join([i \in DOMAIN agent_outputs |->
             <<"=== ", Upper(agent_outputs[Len(agent_outputs) + 1 - i].key),
               " AGENT ===\n">>
             \o agent_outputs[Len(agent_outputs) + 1 - i].value.response],
         <<"\n\n">>)

\* supervisor.py 255-258: one labeled block per entry, in dict order
combined_data(agent_outputs) ==
    Join([i \in DOMAIN agent_outputs |->
             <<"=== ", Upper(agent_outputs[i].key), " AGENT ===\n">>
             \o agent_outputs[i].value.response],
         <<"\n\n">>)

\* supervisor.py 263: the human message given to the merge oracle
merge_input(st) ==
    <<"User query: ">> \o st.raw_query \o <<"\n\nAgent Responses:\n">>
    \o combined_data(st.agent_outputs)

\* supervisor.py 84: the human message given to the classification oracle
router_input(st) == <<"User query: ">> \o st.raw_query

\* variant: every synthesis goes through the merge oracle
single_output_never(st) == FALSE

\* supervisor.py 247: is one output used directly?
single_output(st) == Len(st.agent_outputs) = 1

\* supervisor.py 249-250
single_response(st) == st.agent_outputs[1].value.response

\* record the outcome of the call in flight (the last one started)
SetOutcome(log, outcome) == [log EXCEPT ![Len(log)].outcome = outcome]

\* the merge-oracle call in flight returns with a reply (the classification
\* oracle's reply is kept in router_response)
SetReply(log, reply) ==
    [log EXCEPT ![Len(log)].outcome = "returned", ![Len(log)].reply = Some(reply)]

(* --------------------------- persistent store -------------------------- *)

\* the threads that run database functions at the same time: the tools of
\* two sessions' handlers, each opening its own connection (database.py 20-32)
Conns == {1, 2}

\* database calls each thread makes
MaxDbCalls == 2

\* the user both sessions work for
DB_USER == 1

GoalIds == {1, 2}

\* the amounts thread c passes; they differ between the threads so that the
\* stored totals tell whose additions they hold
Amounts(c) == {c}

TransactionTypes == {"CREDIT", "DEBIT"}

\* goals.current_amount of the one goal at the start
GOAL_START == 10

\* a row of the goals table (database.py 112-120), the columns the calls use
GoalRow(id, user_id, current_amount) ==
    [id |-> id, user_id |-> user_id, current_amount |-> current_amount]

\* a row of the user_balance table (database.py 189-198); user_id is UNIQUE
BalanceRow(user_id, current_balance, total_income, total_expenses) ==
    [user_id |-> user_id, current_balance |-> current_balance,
     total_income |-> total_income, total_expenses |-> total_expenses]

\* a row of the transactions table (database.py 77-93), the columns the calls use
TransactionRow(id, user_id, type, amount, source) ==
    [id |-> id, user_id |-> user_id, type |-> type, amount |-> amount,
     source |-> source]

\* a row of the budgets table (database.py 97-108); no column set is UNIQUE
BudgetRow(id, user_id, category_id, amount_limit, month) ==
    [id |-> id, user_id |-> user_id, category_id |-> category_id,
     amount_limit |-> amount_limit, month |-> month]

\* the store before the calls: goal 1 of the user exists, goal 2 does not; the
\* user's balance row may not have been created yet; the user has no
\* transactions and no budgets
InitialStores ==
    {[goals |-> <<GoalRow(1, DB_USER, GOAL_START)>>, user_balance |-> b,
      transactions |-> <<>>, budgets |-> <<>>] :
        b \in {<<>>, <<BalanceRow(DB_USER, 10, 10, 0)>>}}

\* cursor.fetchone() on the rows a SELECT matched
fetchone(rows) == IF rows = <<>> THEN None ELSE Some(rows[1])

\* database.py 455: SELECT current_amount FROM goals WHERE id = ? AND user_id = ?
select_goal(st, goal_id, user_id) ==
    fetchone(SelectSeq(st.goals, LAMBDA r : r.id = goal_id /\ r.user_id = user_id))

\* database.py 460: UPDATE goals SET current_amount = ? WHERE id = ? AND user_id = ?
update_goal(st, goal_id, user_id, new_amount) ==
    [st EXCEPT !.goals =
        [i \in DOMAIN @ |->
            IF @[i].id = goal_id /\ @[i].user_id = user_id
            THEN [@[i] EXCEPT !.current_amount = new_amount]
            ELSE @[i]]]

\* database.py 644: SELECT ... FROM user_balance WHERE user_id = ?
select_balance(st, user_id) ==
    fetchone(SelectSeq(st.user_balance, LAMBDA r : r.user_id = user_id))

\* the amounts are REAL columns and Python floats: binary floating point with
\* a significand of 53 bits. The model keeps the arithmetic and shortens the
\* significand, so that sums are rounded at small values already
SIGNIFICAND_BITS == 5

RECURSIVE Quantum(_)
\* the spacing of the representable values around the magnitude m
Quantum(m) == IF m < 2 ^ SIGNIFICAND_BITS THEN 1 ELSE 2 * Quantum(m \div 2)

\* the representable value nearest to x, ties to the even significand
RoundFloat(x) ==
    LET m == IF x < 0 THEN 0 - x ELSE x
        q == Quantum(m)
        lo == (m \div q) * q
        nearest == IF 2 * (m - lo) < q THEN lo
                   ELSE IF 2 * (m - lo) > q THEN lo + q
                   ELSE IF (lo \div q) % 2 = 0 THEN lo ELSE lo + q
    IN  IF x < 0 THEN 0 - nearest ELSE nearest

\* float + float and float - float
FloatAdd(a, b) == RoundFloat(a + b)

FloatSub(a, b) == RoundFloat(a - b)

\* database.py 656-662: the new totals, from the totals read
apply_transaction(row, amount, transaction_type) ==
    IF transaction_type \in {"CREDIT", "credit", "income"}
    THEN [row EXCEPT !.current_balance = FloatAdd(@, amount),
                     !.total_income = FloatAdd(@, amount)]
    ELSE [row EXCEPT !.current_balance = FloatSub(@, amount),
                     !.total_expenses = FloatAdd(@, amount)]

\* database.py 665-673: UPDATE user_balance SET <the three totals> WHERE user_id = ?
update_balance(st, user_id, totals) ==
    [st EXCEPT !.user_balance =
        [i \in DOMAIN @ |->
            IF @[i].user_id = user_id
            THEN BalanceRow(user_id, totals.current_balance, totals.total_income,
                            totals.total_expenses)
            ELSE @[i]]]

\* database.py 271-274 and transaction_tools.py 146-149: INSERT INTO
\* transactions; the id is the AUTOINCREMENT key, and no row is ever deleted
insert_transaction(st, user_id, type, amount) ==
    [st EXCEPT !.transactions =
        Append(@, TransactionRow(Len(@) + 1, user_id, type, amount, "MANUAL"))]

RECURSIVE sum_amounts(_, _)
\* database.py 690-704: SELECT SUM(amount) FROM transactions WHERE type IN
\* (...), the rows added up in rowid order; `or 0` when there is none
sum_amounts(rows, types) ==
    IF rows = <<>> THEN 0
    ELSE LET front == SubSeq(rows, 1, Len(rows) - 1)
             last == rows[Len(rows)]
         IN  IF last.type \in types
             THEN FloatAdd(sum_amounts(front, types), last.amount)
             ELSE sum_amounts(front, types)

\* database.py 688-707: the totals recalculate_user_balance computes
recalculated_totals(st, user_id) ==
    LET rows == SelectSeq(st.transactions, LAMBDA r : r.user_id = user_id)
        total_income == sum_amounts(rows, {"CREDIT", "credit", "income"})
        total_expenses == sum_amounts(rows, {"DEBIT", "debit", "expense"})
    IN  BalanceRow(user_id, FloatSub(total_income, total_expenses),
                   total_income, total_expenses)

\* database.py 409-410: SELECT id FROM budgets WHERE user_id = ? AND
\* category_id = ? AND month = ?
select_budget(st, user_id, category_id, month) ==
    fetchone(SelectSeq(st.budgets,
        LAMBDA r : r.user_id = user_id /\ r.category_id = category_id
                   /\ r.month = month))

\* database.py 413: UPDATE budgets SET amount_limit = ? WHERE id = ?
update_budget(st, id, amount) ==
    [st EXCEPT !.budgets =
        [i \in DOMAIN @ |->
            IF @[i].id = id THEN [@[i] EXCEPT !.amount_limit = amount] ELSE @[i]]]

\* database.py 416-417: INSERT INTO budgets
insert_budget(st, user_id, category_id, amount, month) ==
    [st EXCEPT !.budgets =
        Append(@, BudgetRow(Len(@) + 1, user_id, category_id, amount, month))]

\* a thread that is in no database call
IdleConn(log) ==
    [pc |-> "idle", fn |-> "none", user_id |-> 0, goal_id |-> 0, amount |-> 0,
     transaction_type |-> "none", txn_id |-> 0, category_id |-> 0,
     month |-> "none", row |-> None, log |-> log]

\* the record of a finished call
Finished(c, returned) ==
    [fn |-> c.fn, goal_id |-> c.goal_id, amount |-> c.amount,
     transaction_type |-> c.transaction_type, txn_id |-> c.txn_id,
     category_id |-> c.category_id, month |-> c.month, row |-> c.row,
     returned |-> returned]

\* no database call is in progress
StoreIdle ==
    /\ store \in {st \in InitialStores : st.user_balance = <<>>}
    /\ conn = [c \in Conns |-> IdleConn(<<>>)]

\* no handler run is looked at
HandlerIdle ==
    handler = [agent |-> "none", pc |-> "idle", step |-> 0, limit |-> 0,
               tool_calls |-> 0, tool_errors |-> 0, raised |-> "none"]

\* no concurrent sessions are looked at
NoSessions == sessions = <<>>

(* ------------------------------ actions -------------------------------- *)

\* main.py 170-177: the text of the except branch of chat_message
APOLOGY == <<"I'm sorry, I encountered an error. Please try again.">>

\* main.py 153-156
USER_NOT_FOUND == <<"User not found. Please sync your data first.">>

\* main.py 79-86: the ChatResponse model with its defaults
ChatResponse(response, agents_used, data, success, error) ==
    [response |-> response, agents_used |-> agents_used, data |-> data,
     ui_actions |-> None, success |-> success, error |-> error]

\* a chat request has arrived with its user id resolved and its message; state
\* is the initial_state process_query will build from them
SessionInit ==
    /\ state \in {initial_state(u, q) : u \in UserIds, q \in Queries}
    /\ pc = "chat_message"
    /\ awaiting = "none"
    /\ steps = 0
    /\ router_response = None
    /\ router_log = None
    /\ calls = <<>>
    /\ oracle_calls = <<>>
    /\ raised = "none"
    /\ result = None
    /\ chat_response = None

\* one chat request, nothing else going on
SessionIdle == SessionInit /\ state = initial_state(1, <<"hi">>)

Init == SessionInit /\ StoreIdle /\ HandlerIdle /\ NoSessions

\* main.py 153-156: no user id, process_query is not called
ChatUserNotFound ==
    /\ pc = "chat_message"
    /\ state.user_id = 0
    /\ chat_response' = Some(ChatResponse(USER_NOT_FOUND, None, None, FALSE, None))
    /\ pc' = "user_not_found"
    /\ UNCHANGED <<state, awaiting, steps, router_response, router_log, calls,
                   oracle_calls, raised, result>>
    /\ UNCHANGED outside_session

\* main.py 158-161: process_query is called and starts the graph at its entry point
ChatProcessQuery ==
    /\ pc = "chat_message"
    /\ state.user_id # 0
    /\ pc' = "router"
    /\ UNCHANGED <<state, awaiting, steps, router_response, router_log, calls,
                   oracle_calls, raised, result, chat_response>>
    /\ UNCHANGED outside_session

\* router_node up to `await llm.ainvoke(messages)`
RouterInvoke ==
    /\ pc = "router" /\ awaiting = "none" /\ router_response = None
    /\ steps < recursion_limit
    /\ oracle_calls' = Append(oracle_calls,
            [oracle |-> "classification", input |-> router_input(state),
             reply |-> None, outcome |-> "pending"])
    /\ awaiting' = "classification"
    /\ UNCHANGED <<state, pc, steps, router_response, router_log, calls, raised, result>>
    /\ UNCHANGED <<chat_response, outside_session>>

\* the classification oracle replies: `response` is bound
RouterReply ==
    /\ pc = "router" /\ awaiting = "classification"
    /\ \E content \in OracleReplies : router_response' = Some(content)
    /\ oracle_calls' = SetOutcome(oracle_calls, "returned")
    /\ awaiting' = "none"
    /\ UNCHANGED <<state, pc, steps, router_log, calls, raised, result>>
    /\ UNCHANGED <<chat_response, outside_session>>

\* variant: the oracle call is inside the try block and the except clause
\* catches its failure
RouterOracleRaise_fallback ==
    /\ pc = "router" /\ awaiting = "classification"
    /\ oracle_calls' = SetOutcome(oracle_calls, "raised")
    /\ awaiting' = "none"
    /\ state' = [state EXCEPT !.pending_agents = <<"analyst">>,
                              !.completed_agents = <<>>,
                              !.next_agent = Some("analyst")]
    /\ router_log' = Some([agents_to_call |-> <<"analyst">>,
                           reasoning |-> FALLBACK_REASONING])
    /\ steps' = steps + 1
    /\ pc' = "analyst"
    /\ UNCHANGED <<router_response, calls, raised, result>>
    /\ UNCHANGED <<chat_response, outside_session>>

\* the classification oracle call fails: llm.ainvoke is outside the try
\* block, nothing in router_node or process_query catches the exception
RouterOracleRaise ==
    /\ pc = "router" /\ awaiting = "classification"
    /\ oracle_calls' = SetOutcome(oracle_calls, "raised")
    /\ awaiting' = "none"
    /\ pc' = "raised"
    /\ raised' = "ClassificationOracleError"
    /\ UNCHANGED <<state, steps, router_response, router_log, calls, result>>
    /\ UNCHANGED <<chat_response, outside_session>>

\* router_node from the reply to its return, then the conditional edge
RouterFinish ==
    /\ pc = "router" /\ awaiting = "none" /\ router_response # None
    /\ LET r == router_node(state, router_response[1])
       IN  IF r.raised # "none"
           THEN /\ pc' = "raised"
                /\ raised' = r.raised
                /\ UNCHANGED <<state, steps, router_log>>
           ELSE /\ state' = r.state
                /\ router_log' = r.log
                /\ steps' = steps + 1
                /\ pc' = determine_next_node(r.state)
                /\ UNCHANGED raised
    /\ UNCHANGED <<awaiting, router_response, calls, oracle_calls, result>>
    /\ UNCHANGED <<chat_response, outside_session>>

\* variant: the node starts its handler without waiting for the one in flight
Dispatch_while_awaiting(agent) ==
    /\ pc = agent
    /\ Len(calls) < 3
    /\ steps < recursion_limit
    /\ calls' = Append(calls,
            [agent |-> agent, user_id |-> state.user_id,
             query |-> NodeQuery(agent, state), outcome |-> "pending"])
    /\ awaiting' = agent
    /\ router_response' = None
    /\ UNCHANGED <<state, pc, steps, router_log, oracle_calls, raised, result>>
    /\ UNCHANGED <<chat_response, outside_session>>

\* <agent>_node up to `await run_<agent>(user_id, query)`
Dispatch(agent) ==
    /\ pc = agent /\ awaiting = "none"
    /\ steps < recursion_limit
    /\ calls' = Append(calls,
            [agent |-> agent, user_id |-> state.user_id,
             query |-> NodeQuery(agent, state), outcome |-> "pending"])
    /\ awaiting' = agent
    /\ router_response' = None
    /\ UNCHANGED <<state, pc, steps, router_log, oracle_calls, raised, result>>
    /\ UNCHANGED <<chat_response, outside_session>>

\* the handler returns: the rest of <agent>_node, then the conditional edge
HandlerReturn(agent, res) ==
    /\ pc = agent /\ awaiting = agent
    /\ calls' = SetOutcome(calls, "returned")
    /\ state' = NodeResult(agent, state, res)
    /\ steps' = steps + 1
    /\ pc' = determine_next_node(state')
    /\ awaiting' = "none"
    /\ UNCHANGED <<router_response, router_log, oracle_calls, raised, result>>
    /\ UNCHANGED <<chat_response, outside_session>>

\* variant: the node catches the handler's exception and stores an error text
HandlerRaise_swallowed(agent) ==
    /\ pc = agent /\ awaiting = agent
    /\ calls' = SetOutcome(calls, "raised")
    /\ state' = NodeResult(agent, state,
            [response |-> <<"error">>, tool_calls |-> <<>>, sources |-> <<>>])
    /\ steps' = steps + 1
    /\ pc' = determine_next_node(state')
    /\ awaiting' = "none"
    /\ UNCHANGED <<router_response, router_log, oracle_calls, raised, result>>
    /\ UNCHANGED <<chat_response, outside_session>>

\* the handler raises: no node and no caller up to process_query has a try
HandlerRaise(agent) ==
    /\ pc = agent /\ awaiting = agent
    /\ calls' = SetOutcome(calls, "raised")
    /\ pc' = "raised"
    /\ raised' = "CapabilityExecutionError"
    /\ awaiting' = "none"
    /\ UNCHANGED <<state, steps, router_response, router_log, oracle_calls, result>>
    /\ UNCHANGED <<chat_response, outside_session>>

\* synthesizer_node with one output: no oracle, then the edge to END
SynthesizeSingle ==
    /\ pc = "synthesizer" /\ awaiting = "none"
    /\ steps < recursion_limit
    /\ single_output(state)
    /\ state' = [state EXCEPT !.final_response = Some(single_response(state))]
    /\ steps' = steps + 1
    /\ pc' = "END"
    /\ router_response' = None
    /\ UNCHANGED <<awaiting, router_log, calls, oracle_calls, raised, result>>
    /\ UNCHANGED <<chat_response, outside_session>>

\* synthesizer_node otherwise, up to `await llm.ainvoke(messages)`
SynthesizeInvoke ==
    /\ pc = "synthesizer" /\ awaiting = "none"
    /\ steps < recursion_limit
    /\ ~single_output(state)
    /\ oracle_calls' = Append(oracle_calls,
            [oracle |-> "merge", input |-> merge_input(state), reply |-> None,
             outcome |-> "pending"])
    /\ awaiting' = "merge"
    /\ router_response' = None
    /\ UNCHANGED <<state, pc, steps, router_log, calls, raised, result>>
    /\ UNCHANGED <<chat_response, outside_session>>

\* the merge oracle replies
MergeReply(text) ==
    /\ pc = "synthesizer" /\ awaiting = "merge"
    /\ oracle_calls' = SetReply(oracle_calls, text)
    /\ state' = [state EXCEPT !.final_response = Some(text)]
    /\ steps' = steps + 1
    /\ pc' = "END"
    /\ awaiting' = "none"
    /\ UNCHANGED <<router_response, router_log, calls, raised, result>>
    /\ UNCHANGED <<chat_response, outside_session>>

\* the merge oracle call fails
MergeRaise ==
    /\ pc = "synthesizer" /\ awaiting = "merge"
    /\ oracle_calls' = SetOutcome(oracle_calls, "raised")
    /\ pc' = "raised"
    /\ raised' = "MergeOracleError"
    /\ awaiting' = "none"
    /\ UNCHANGED <<state, steps, router_response, router_log, calls, result>>
    /\ UNCHANGED <<chat_response, outside_session>>

\* supervisor.py 378-382; every key read with .get is present in the final state
ProcessQueryReturn ==
    /\ pc = "END"
    /\ result' = Some([response |-> state.final_response,
                       agents_used |-> state.completed_agents,
                       agent_outputs |-> state.agent_outputs])
    /\ pc' = "returned"
    /\ UNCHANGED <<state, awaiting, steps, router_response, router_log, calls,
                   oracle_calls, raised>>
    /\ UNCHANGED <<chat_response, outside_session>>

\* main.py 163-168: process_query returned
ChatReturn ==
    /\ pc = "returned" /\ chat_response = None
    /\ chat_response' =
            IF result[1].response = None
            THEN \* response is a required str: the model's validation error is
                 \* raised inside the try and caught as any other
                 Some(ChatResponse(APOLOGY, Some(<<>>), None, FALSE,
                                   Some("ValidationError")))
            ELSE \* process_query's dict has no "data" key
                 Some(ChatResponse(result[1].response[1], Some(result[1].agents_used),
                                   None, TRUE, None))
    /\ UNCHANGED <<state, pc, awaiting, steps, router_response, router_log, calls,
                   oracle_calls, raised, result>>
    /\ UNCHANGED outside_session

\* variant: the except branch answers with what the handlers produced so far
ChatError_partial ==
    /\ pc = "raised" /\ chat_response = None
    /\ chat_response' =
            IF state.agent_outputs = <<>>
            THEN Some(ChatResponse(APOLOGY, Some(<<>>), None, FALSE, Some(raised)))
            ELSE Some(ChatResponse(state.agent_outputs[1].value.response,
                                   Some(state.completed_agents), None, TRUE, None))
    /\ UNCHANGED <<state, pc, awaiting, steps, router_response, router_log, calls,
                   oracle_calls, raised, result>>
    /\ UNCHANGED outside_session

\* main.py 170-177: an exception left process_query
ChatError ==
    /\ pc = "raised" /\ chat_response = None
    /\ chat_response' = Some(ChatResponse(APOLOGY, Some(<<>>), None, FALSE, Some(raised)))
    /\ UNCHANGED <<state, pc, awaiting, steps, router_response, router_log, calls,
                   oracle_calls, raised, result>>
    /\ UNCHANGED outside_session

Next ==
    \/ ChatUserNotFound
    \/ ChatProcessQuery
    \/ RouterInvoke
    \/ RouterReply
    \/ RouterOracleRaise
    \/ RouterFinish
    \/ \E agent \in AgentIds : Dispatch(agent)
    \/ \E agent \in AgentIds : \E res \in HandlerResults(agent) : HandlerReturn(agent, res)
    \/ \E agent \in AgentIds : HandlerRaise(agent)
    \/ SynthesizeSingle
    \/ SynthesizeInvoke
    \/ \E text \in MergeReplies : MergeReply(text)
    \/ MergeRaise
    \/ ProcessQueryReturn
    \/ ChatReturn
    \/ ChatError

Spec == Init /\ [][Next]_vars

\* the steps of a session once the router has returned
AfterRouting ==
    \/ \E agent \in AgentIds : Dispatch(agent)
    \/ \E agent \in AgentIds : \E res \in HandlerResults(agent) : HandlerReturn(agent, res)
    \/ \E agent \in AgentIds : HandlerRaise(agent)
    \/ SynthesizeSingle
    \/ SynthesizeInvoke
    \/ \E text \in MergeReplies : MergeReply(text)
    \/ MergeRaise
    \/ ProcessQueryReturn

\* the event loop runs a session's step when it is ready, and an awaited
\* handler or merge-oracle call ends, by returning or by raising
LiveSpec == Spec /\ WF_vars(AfterRouting)

(* ------------------------ database calls in parallel ------------------- *)

\* two handlers' tools are inside database functions for the same user; the
\* sessions themselves are not stepped here
DbInit ==
    /\ SessionIdle
    /\ HandlerIdle
    /\ NoSessions
    /\ store \in InitialStores
    /\ conn = [c \in Conns |-> IdleConn(<<>>)]

\* database.py 450-458: update_goal_progress up to the fetch of the row
update_goal_progress_select(c, goal_id, amount_to_add) ==
    /\ conn[c].pc = "idle"
    /\ Len(conn[c].log) < MaxDbCalls
    /\ LET row == select_goal(store, goal_id, DB_USER)
           call == [IdleConn(conn[c].log) EXCEPT
                        !.fn = "update_goal_progress", !.user_id = DB_USER,
                        !.goal_id = goal_id, !.amount = amount_to_add, !.row = row]
       IN  conn' = [conn EXCEPT ![c] =
                IF row = None
                THEN IdleConn(Append(conn[c].log, Finished(call, "False")))
                ELSE [call EXCEPT !.pc = "selected"]]
    /\ UNCHANGED store
    /\ UNCHANGED outside_store

\* variant: the UPDATE adds to the amount stored at the time of the write
update_goal_progress_update_in_place(c) ==
    /\ conn[c].pc = "selected"
    /\ conn[c].fn = "update_goal_progress"
    /\ LET stored == select_goal(store, conn[c].goal_id, conn[c].user_id)
           new_amount == FloatAdd(stored[1].current_amount, conn[c].amount)
       IN  /\ store' = update_goal(store, conn[c].goal_id, conn[c].user_id, new_amount)
           /\ conn' = [conn EXCEPT ![c] =
                    IdleConn(Append(conn[c].log, Finished(conn[c], "True")))]
    /\ UNCHANGED outside_store

\* database.py 459-461 and 27: the UPDATE with the amount computed from the
\* row fetched, and the commit
update_goal_progress_update(c) ==
    /\ conn[c].pc = "selected"
    /\ conn[c].fn = "update_goal_progress"
    /\ LET new_amount == FloatAdd(conn[c].row[1].current_amount, conn[c].amount)
           rowcount == IF select_goal(store, conn[c].goal_id, conn[c].user_id) # None
                       THEN 1 ELSE 0
       IN  /\ store' = update_goal(store, conn[c].goal_id, conn[c].user_id, new_amount)
           /\ conn' = [conn EXCEPT ![c] =
                    IdleConn(Append(conn[c].log,
                        Finished(conn[c], IF rowcount > 0 THEN "True" ELSE "False")))]
    /\ UNCHANGED outside_store

\* database.py 640-645: update_user_balance up to the fetch of the row
update_user_balance_select(c, amount, transaction_type) ==
    /\ conn[c].pc = "idle"
    /\ Len(conn[c].log) < MaxDbCalls
    /\ conn' = [conn EXCEPT ![c] =
            [IdleConn(conn[c].log) EXCEPT
                !.pc = "selected", !.fn = "update_user_balance",
                !.user_id = DB_USER, !.amount = amount,
                !.transaction_type = transaction_type,
                !.row = select_balance(store, DB_USER)]]
    /\ UNCHANGED store
    /\ UNCHANGED outside_store

\* database.py 647-673 and 27-30: the INSERT when no row was fetched, the
\* UPDATE with the totals computed from the row fetched, and the commit; the
\* INSERT of a second row for the user breaks UNIQUE and the call rolls back
update_user_balance_update(c) ==
    /\ conn[c].pc = "selected"
    /\ conn[c].fn = "update_user_balance"
    /\ LET read == IF conn[c].row = None
                   THEN BalanceRow(conn[c].user_id, 0, 0, 0)
                   ELSE conn[c].row[1]
           totals == apply_transaction(read, conn[c].amount, conn[c].transaction_type)
           integrity_error ==
               conn[c].row = None /\ select_balance(store, conn[c].user_id) # None
           inserted ==
               IF conn[c].row = None
               THEN [store EXCEPT !.user_balance = Append(@, read)]
               ELSE store
       IN  IF integrity_error
           THEN /\ conn' = [conn EXCEPT ![c] =
                        IdleConn(Append(conn[c].log, Finished(conn[c], "IntegrityError")))]
                /\ UNCHANGED store
           ELSE /\ store' = update_balance(inserted, conn[c].user_id, totals)
                /\ conn' = [conn EXCEPT ![c] =
                        IdleConn(Append(conn[c].log, Finished(conn[c], "None")))]
    /\ UNCHANGED outside_store

DbNext ==
    \/ \E c \in Conns : \E goal_id \in GoalIds : \E amount \in Amounts(c) :
            update_goal_progress_select(c, goal_id, amount)
    \/ \E c \in Conns : update_goal_progress_update(c)
    \/ \E c \in Conns : \E amount \in Amounts(c) : \E t \in TransactionTypes :
            update_user_balance_select(c, amount, t)
    \/ \E c \in Conns : update_user_balance_update(c)

DbSpec == DbInit /\ [][DbNext]_vars

(* ------------------------- the user's ledger --------------------------- *)

\* calls the one thread of the ledger makes
MaxLedgerCalls == 3

\* the amounts the ledger calls pass, each a representable value
LedgerAmounts == {1, 2, 31}

\* the categories and the month budgets are set for
CategoryIds == {1, 2}

BUDGET_MONTH == "2025-01"

\* thread c may start another call
MayCall(c, max_calls) == conn[c].pc = "idle" /\ Len(conn[c].log) < max_calls

\* database.py 268-275 and 27: add_manual_transaction up to the end of its
\* `with` block: the DEBIT row is inserted and committed
add_manual_transaction_insert(c, amount) ==
    /\ store' = insert_transaction(store, DB_USER, "DEBIT", amount)
    /\ conn' = [conn EXCEPT ![c] =
            [IdleConn(conn[c].log) EXCEPT
                !.pc = "inserted", !.fn = "add_manual_transaction",
                !.user_id = DB_USER, !.amount = amount,
                !.transaction_type = "DEBIT",
                !.txn_id = Len(store.transactions) + 1]]
    /\ UNCHANGED outside_store

\* transaction_tools.py 143-150: add_income up to the end of its `with`
\* block: the CREDIT row is inserted and committed
add_income_insert(c, amount) ==
    /\ store' = insert_transaction(store, DB_USER, "CREDIT", amount)
    /\ conn' = [conn EXCEPT ![c] =
            [IdleConn(conn[c].log) EXCEPT
                !.pc = "inserted", !.fn = "add_income",
                !.user_id = DB_USER, !.amount = amount,
                !.transaction_type = "CREDIT",
                !.txn_id = Len(store.transactions) + 1]]
    /\ UNCHANGED outside_store

\* database.py 278 / transaction_tools.py 153, then 640-645: the call of
\* update_user_balance on a connection of its own, up to the fetch of the row
transaction_balance_select(c) ==
    /\ conn[c].pc = "inserted"
    /\ conn' = [conn EXCEPT ![c] =
            [@ EXCEPT !.pc = "balance_selected",
                      !.row = select_balance(store, conn[c].user_id)]]
    /\ UNCHANGED store
    /\ UNCHANGED outside_store

\* database.py 647-678 and 27-30, then 280 / transaction_tools.py 155: the
\* INSERT when no row was fetched, the UPDATE with the totals computed from
\* the row fetched, the commit, and the return of the transaction's id; the
\* INSERT of a second balance row breaks UNIQUE, update_user_balance rolls its
\* own connection back and the exception leaves the caller
transaction_balance_update(c) ==
    /\ conn[c].pc = "balance_selected"
    /\ LET read == IF conn[c].row = None
                   THEN BalanceRow(conn[c].user_id, 0, 0, 0)
                   ELSE conn[c].row[1]
           totals == apply_transaction(read, conn[c].amount, conn[c].transaction_type)
           integrity_error ==
               conn[c].row = None /\ select_balance(store, conn[c].user_id) # None
           inserted ==
               IF conn[c].row = None
               THEN [store EXCEPT !.user_balance = Append(@, read)]
               ELSE store
       IN  IF integrity_error
           THEN /\ conn' = [conn EXCEPT ![c] =
                        IdleConn(Append(conn[c].log, Finished(conn[c], "IntegrityError")))]
                /\ UNCHANGED store
           ELSE /\ store' = update_balance(inserted, conn[c].user_id, totals)
                /\ conn' = [conn EXCEPT ![c] =
                        IdleConn(Append(conn[c].log, Finished(conn[c], "txn_id")))]
    /\ UNCHANGED outside_store

\* database.py 681-732: recalculate_user_balance, one connection from the
\* SUMs to the UPDATE or INSERT of the row
recalculate_user_balance(c) ==
    /\ LET totals == recalculated_totals(store, DB_USER)
           call == [IdleConn(conn[c].log) EXCEPT
                        !.fn = "recalculate_user_balance", !.user_id = DB_USER,
                        !.row = select_balance(store, DB_USER)]
       IN  /\ store' = IF call.row = None
                       THEN [store EXCEPT !.user_balance = Append(@, totals)]
                       ELSE update_balance(store, DB_USER, totals)
           /\ conn' = [conn EXCEPT ![c] =
                    IdleConn(Append(conn[c].log, Finished(call, "dict")))]
    /\ UNCHANGED outside_store

\* a user with no transactions and no balance row; one thread makes its calls
\* one after the other
LedgerInit ==
    /\ SessionIdle
    /\ HandlerIdle
    /\ NoSessions
    /\ StoreIdle

LedgerNext ==
    \/ \E amount \in LedgerAmounts :
            MayCall(1, MaxLedgerCalls) /\ add_manual_transaction_insert(1, amount)
    \/ \E amount \in LedgerAmounts :
            MayCall(1, MaxLedgerCalls) /\ add_income_insert(1, amount)
    \/ transaction_balance_select(1)
    \/ transaction_balance_update(1)
    \/ MayCall(1, MaxLedgerCalls) /\ recalculate_user_balance(1)

LedgerSpec == LedgerInit /\ [][LedgerNext]_vars

(* ---------------------- ledger calls in parallel ----------------------- *)

\* database.py 405-411: save_budget up to the fetch of the row
save_budget_select(c, category_id, amount, month) ==
    /\ conn' = [conn EXCEPT ![c] =
            [IdleConn(conn[c].log) EXCEPT
                !.pc = "budget_selected", !.fn = "save_budget",
                !.user_id = DB_USER, !.category_id = category_id,
                !.amount = amount, !.month = month,
                !.row = select_budget(store, DB_USER, category_id, month)]]
    /\ UNCHANGED store
    /\ UNCHANGED outside_store

\* database.py 412-418 and 27: the UPDATE of the row fetched, or the INSERT
\* when none was fetched, and the commit
save_budget_write(c) ==
    /\ conn[c].pc = "budget_selected"
    /\ store' = IF conn[c].row # None
                THEN update_budget(store, conn[c].row[1].id, conn[c].amount)
                ELSE insert_budget(store, conn[c].user_id, conn[c].category_id,
                                   conn[c].amount, conn[c].month)
    /\ conn' = [conn EXCEPT ![c] =
            IdleConn(Append(conn[c].log, Finished(conn[c], "id")))]
    /\ UNCHANGED outside_store

\* two handlers' tools record expenses and set budgets for the same user
RaceInit ==
    /\ SessionIdle
    /\ HandlerIdle
    /\ NoSessions
    /\ store \in InitialStores
    /\ conn = [c \in Conns |-> IdleConn(<<>>)]

RaceNext ==
    \/ \E c \in Conns : \E amount \in Amounts(c) :
            MayCall(c, MaxDbCalls) /\ add_manual_transaction_insert(c, amount)
    \/ \E c \in Conns : transaction_balance_select(c)
    \/ \E c \in Conns : transaction_balance_update(c)
    \/ \E c \in Conns : \E category_id \in CategoryIds : \E amount \in Amounts(c) :
            MayCall(c, MaxDbCalls)
                /\ save_budget_select(c, category_id, amount, BUDGET_MONTH)
    \/ \E c \in Conns : save_budget_write(c)

RaceSpec == RaceInit /\ [][RaceNext]_vars

(* --------------------------- one handler run --------------------------- *)

\* variant: the planner and transaction handlers run without a config, under
\* the graph library's default limit
handler_recursion_limit_default(agent) ==
    CASE agent = "analyst" -> 10
      [] agent = "knowledge" -> 10
      [] agent = "planner" -> 25
      [] agent = "transaction" -> 25

\* the recursion_limit each run_<agent> passes to its agent's ainvoke:
\* analyst_agent.py 93-95, knowledge_agent.py 83, planner_agent.py 100,
\* transaction_agent.py 91
handler_recursion_limit(agent) ==
    CASE agent = "analyst" -> 10
      [] agent = "knowledge" -> 10
      [] agent = "planner" -> 15
      [] agent = "transaction" -> 15

\* a handler run is about to start; the session around it is not stepped here
HandlerInit ==
    /\ SessionIdle
    /\ StoreIdle
    /\ NoSessions
    /\ HandlerIdle

\* run_<agent> up to `await agent.ainvoke(..., config=config)`: the agent
\* graph starts at its agent node with no step taken
run_handler(agent) ==
    /\ handler.pc = "idle"
    /\ handler' = [handler EXCEPT !.agent = agent, !.pc = "agent",
                                  !.limit = handler_recursion_limit(agent)]
    /\ UNCHANGED outside_handler

\* a step of the agent node: the reasoning oracle answers without tool calls,
\* the graph ends and run_<agent> returns
AgentAnswers ==
    /\ handler.pc = "agent"
    /\ handler.step < handler.limit
    /\ handler' = [handler EXCEPT !.step = @ + 1, !.pc = "returned"]
    /\ UNCHANGED outside_handler

\* a step of the agent node: the reasoning oracle asks for tools
AgentCallsTools ==
    /\ handler.pc = "agent"
    /\ handler.step < handler.limit
    /\ handler' = [handler EXCEPT !.step = @ + 1, !.tool_calls = @ + 1, !.pc = "tools"]
    /\ UNCHANGED outside_handler

\* a step of the agent node: the reasoning oracle asks for tools with fewer
\* than two steps left; the prebuilt agent may answer that it needs more steps
\* instead of going on
AgentStopsShort ==
    /\ handler.pc = "agent"
    /\ handler.step < handler.limit
    /\ handler.limit - handler.step < 2
    /\ handler' = [handler EXCEPT !.step = @ + 1, !.pc = "returned"]
    /\ UNCHANGED outside_handler

\* a step of the agent node: the reasoning-oracle call fails; run_<agent> has
\* no try around ainvoke
AgentOracleRaises ==
    /\ handler.pc = "agent"
    /\ handler.step < handler.limit
    /\ handler' = [handler EXCEPT !.step = @ + 1, !.pc = "raised",
                                  !.raised = "ReasoningOracleError"]
    /\ UNCHANGED outside_handler

\* a step of the tools node: the tools run, a failing tool is reported to the
\* agent node as a message
ToolsRun(ok) ==
    /\ handler.pc = "tools"
    /\ handler.step < handler.limit
    /\ handler' = [handler EXCEPT !.step = @ + 1, !.pc = "agent",
                                  !.tool_errors = IF ok THEN @ ELSE @ + 1]
    /\ UNCHANGED outside_handler

\* the limit is used up and the graph has not ended: ainvoke raises
\* GraphRecursionError, which leaves run_<agent>
OutOfSteps ==
    /\ handler.pc \in {"agent", "tools"}
    /\ handler.step >= handler.limit
    /\ handler' = [handler EXCEPT !.pc = "raised", !.raised = "GraphRecursionError"]
    /\ UNCHANGED outside_handler

HandlerNext ==
    \/ \E agent \in AgentIds : run_handler(agent)
    \/ AgentAnswers
    \/ AgentCallsTools
    \/ AgentStopsShort
    \/ AgentOracleRaises
    \/ \E ok \in BOOLEAN : ToolsRun(ok)
    \/ OutOfSteps

\* every reasoning-oracle call and every tool call of the run ends
HandlerSpec == HandlerInit /\ [][HandlerNext]_vars /\ WF_vars(HandlerNext)

(* ------------------- process_query calls at the same time -------------- *)

\* the process_query coroutines one event loop runs (test_stress.py 149-159)
SessionIds == {1, 2}

\* the query of each, all for user 1 as in the test
SessionQuery(s) ==
    IF s = 1 THEN <<"I spent 500 on a charger for my gaming PC">>
    ELSE <<"Show my goals">>

\* the classification oracle's replies looked at here
SessionReplies ==
    {<<Json(JsonObject(TRUE, ListVal(l), TRUE, "why"))>> :
        l \in {<<"analyst">>, <<"transaction", "planner">>, <<"planner", "knowledge">>}}

\* what a handler returns to the coroutine that awaits it; the text names the
\* query the handler was given
HandlerReplyTo(agent, query) ==
    [response |-> <<"reply of", agent, "to">> \o query,
     tool_calls |-> ToolOf(agent), sources |-> <<>>]

\* what the merge oracle returns to the coroutine that awaits it
MergeReplyTo(input) == <<"merged:">> \o input

\* supervisor.py 362-372: each call builds its own state dict
StartedSession(s) ==
    [state |-> initial_state(1, SessionQuery(s)), pc |-> "router",
     awaiting |-> "none", reply |-> None, raised |-> "none", result |-> None]

SessionsInit ==
    /\ SessionIdle
    /\ StoreIdle
    /\ HandlerIdle
    /\ sessions = [s \in SessionIds |-> StartedSession(s)]

\* router_node of session s up to its await
SessionRouterInvoke(s) ==
    /\ sessions[s].pc = "router" /\ sessions[s].awaiting = "none"
    /\ sessions[s].reply = None
    /\ sessions' = [sessions EXCEPT ![s].awaiting = "classification"]
    /\ UNCHANGED outside_sessions

\* the classification oracle answers session s: router_node to its return,
\* then the conditional edge
SessionRoute(s, content) ==
    /\ sessions[s].pc = "router" /\ sessions[s].awaiting = "classification"
    /\ LET r == router_node(sessions[s].state, content)
       IN  sessions' = [sessions EXCEPT
                ![s].awaiting = "none",
                ![s].reply = Some(content),
                ![s].state = r.state,
                ![s].raised = r.raised,
                ![s].pc = IF r.raised # "none" THEN "raised"
                          ELSE determine_next_node(r.state)]
    /\ UNCHANGED outside_sessions

\* the classification oracle call of session s fails
SessionRouterRaise(s) ==
    /\ sessions[s].pc = "router" /\ sessions[s].awaiting = "classification"
    /\ sessions' = [sessions EXCEPT ![s].awaiting = "none", ![s].pc = "raised",
                                    ![s].raised = "ClassificationOracleError"]
    /\ UNCHANGED outside_sessions

\* <agent>_node of session s up to its await
SessionDispatch(s) ==
    /\ sessions[s].pc \in AgentIds /\ sessions[s].awaiting = "none"
    /\ sessions' = [sessions EXCEPT ![s].awaiting = sessions[s].pc]
    /\ UNCHANGED outside_sessions

\* variant: the nodes keep the outputs in one module-level dict
SessionHandlerReturn_shared_outputs(s) ==
    /\ sessions[s].pc \in AgentIds /\ sessions[s].awaiting = sessions[s].pc
    /\ LET agent == sessions[s].pc
           res == HandlerReplyTo(agent, NodeQuery(agent, sessions[s].state))
           st == NodeResult(agent, sessions[s].state, res)
       IN  sessions' = [t \in SessionIds |->
                IF t = s
                THEN [sessions[s] EXCEPT !.state = st, !.awaiting = "none",
                                         !.pc = determine_next_node(st)]
                ELSE [sessions[t] EXCEPT !.state.agent_outputs = st.agent_outputs]]
    /\ UNCHANGED outside_sessions

\* the handler session s awaits returns: the rest of the node, then the edge
SessionHandlerReturn(s) ==
    /\ sessions[s].pc \in AgentIds /\ sessions[s].awaiting = sessions[s].pc
    /\ LET agent == sessions[s].pc
           res == HandlerReplyTo(agent, NodeQuery(agent, sessions[s].state))
           st == NodeResult(agent, sessions[s].state, res)
       IN  sessions' = [sessions EXCEPT ![s].state = st, ![s].awaiting = "none",
                                        ![s].pc = determine_next_node(st)]
    /\ UNCHANGED outside_sessions

\* the handler session s awaits raises
SessionHandlerRaise(s) ==
    /\ sessions[s].pc \in AgentIds /\ sessions[s].awaiting = sessions[s].pc
    /\ sessions' = [sessions EXCEPT ![s].awaiting = "none", ![s].pc = "raised",
                                    ![s].raised = "CapabilityExecutionError"]
    /\ UNCHANGED outside_sessions

\* synthesizer_node of session s with one output
SessionSynthesizeSingle(s) ==
    /\ sessions[s].pc = "synthesizer" /\ sessions[s].awaiting = "none"
    /\ single_output(sessions[s].state)
    /\ sessions' = [sessions EXCEPT
            ![s].state.final_response = Some(single_response(sessions[s].state)),
            ![s].pc = "END"]
    /\ UNCHANGED outside_sessions

\* synthesizer_node of session s otherwise, up to its await
SessionSynthesizeInvoke(s) ==
    /\ sessions[s].pc = "synthesizer" /\ sessions[s].awaiting = "none"
    /\ ~single_output(sessions[s].state)
    /\ sessions' = [sessions EXCEPT ![s].awaiting = "merge"]
    /\ UNCHANGED outside_sessions

\* the merge oracle answers session s
SessionMergeReply(s) ==
    /\ sessions[s].pc = "synthesizer" /\ sessions[s].awaiting = "merge"
    /\ sessions' = [sessions EXCEPT
            ![s].state.final_response =
                Some(MergeReplyTo(merge_input(sessions[s].state))),
            ![s].awaiting = "none",
            ![s].pc = "END"]
    /\ UNCHANGED outside_sessions

\* the merge oracle call of session s fails
SessionMergeRaise(s) ==
    /\ sessions[s].pc = "synthesizer" /\ sessions[s].awaiting = "merge"
    /\ sessions' = [sessions EXCEPT ![s].awaiting = "none", ![s].pc = "raised",
                                    ![s].raised = "MergeOracleError"]
    /\ UNCHANGED outside_sessions

\* supervisor.py 378-382: process_query of session s returns
SessionReturn(s) ==
    /\ sessions[s].pc = "END"
    /\ sessions' = [sessions EXCEPT
            ![s].result = Some([response |-> sessions[s].state.final_response,
                                agents_used |-> sessions[s].state.completed_agents,
                                agent_outputs |-> sessions[s].state.agent_outputs]),
            ![s].pc = "returned"]
    /\ UNCHANGED outside_sessions

\* the event loop resumes whichever coroutine is ready
SessionsNext ==
    \/ \E s \in SessionIds : SessionRouterInvoke(s)
    \/ \E s \in SessionIds : \E content \in SessionReplies : SessionRoute(s, content)
    \/ \E s \in SessionIds : SessionRouterRaise(s)
    \/ \E s \in SessionIds : SessionDispatch(s)
    \/ \E s \in SessionIds : SessionHandlerReturn(s)
    \/ \E s \in SessionIds : SessionHandlerRaise(s)
    \/ \E s \in SessionIds : SessionSynthesizeSingle(s)
    \/ \E s \in SessionIds : SessionSynthesizeInvoke(s)
    \/ \E s \in SessionIds : SessionMergeReply(s)
    \/ \E s \in SessionIds : SessionMergeRaise(s)
    \/ \E s \in SessionIds : SessionReturn(s)

SessionsSpec == SessionsInit /\ [][SessionsNext]_vars

(* ------------------------------ properties ----------------------------- *)

\* the plan the router fixed, as it printed it
Plan == router_log[1].agents_to_call

\* the router has just returned: its reply is still known, no node has started
JustRouted == router_response # None /\ pc \notin {"router", "raised"}

\* the valid ids of a list, in the order of the list
RECURSIVE ValidOnly(_)
ValidOnly(items) ==
    IF items = <<>> THEN <<>>
    ELSE IF Head(items) \in AgentIds THEN <<Head(items)>> \o ValidOnly(Tail(items))
    ELSE ValidOnly(Tail(items))

NumCalls(agent) == Cardinality({i \in DOMAIN calls : calls[i].agent = agent})

HandlerRaised == \E i \in DOMAIN calls : calls[i].outcome = "raised"

MergeCalled == \E i \in DOMAIN oracle_calls : oracle_calls[i].oracle = "merge"

ClassificationFailed ==
    \E i \in DOMAIN oracle_calls :
        oracle_calls[i].oracle = "classification" /\ oracle_calls[i].outcome = "raised"

\* C1: whenever router_node returns a plan, the plan is non-empty, holds only
\* the four fixed ids, and, when the reply carried a list, is that list's valid
\* ids in their order, or [analyst] when the list has no valid id.
C1_PlanIsValidated ==
    JustRouted =>
        LET returned == router_decision(router_response[1]).agents_to_call
            plan == state.pending_agents
        IN  /\ plan # <<>>
            /\ \A i \in DOMAIN plan : plan[i] \in AgentIds
            /\ returned.kind = "list" =>
                  plan = IF ValidOnly(returned.items) = <<>> THEN <<"analyst">>
                         ELSE ValidOnly(returned.items)

\* the oracle returned ["foo", "planner"] and the plan is [planner]
C1_Witness ==
    /\ JustRouted
    /\ router_response[1] = <<Json(JsonObject(TRUE, ListVal(<<"foo", "planner">>), TRUE, "why"))>>
    /\ state.pending_agents = <<"planner">>
    /\ pc = "planner"

\* C2: while the planner handler runs and agent_outputs already has a
\* transaction entry, the query it was given is raw_query followed by a context
\* block that contains the transaction's response text verbatim.
C2_PlannerQueryEmbedsTransaction ==
    (awaiting = "planner" /\ DictHas(state.agent_outputs, "transaction")) =>
        LET query == calls[Len(calls)].query
            text == DictGet(state.agent_outputs, "transaction").response
            n == Len(state.raw_query)
        IN  /\ Len(query) > n
            /\ SubSeq(query, 1, n) = state.raw_query
            /\ IsSubstring(CONTEXT_PREFIX \o text \o CONTEXT_SUFFIX,
                           SubSeq(query, n + 1, Len(query)))

\* plan [transaction, planner], the transaction handler answered with a text
C2_Witness ==
    /\ awaiting = "planner"
    /\ router_log # None /\ Plan = <<"transaction", "planner">>
    /\ DictHas(state.agent_outputs, "transaction")
    /\ DictGet(state.agent_outputs, "transaction").response = <<"reply of", "transaction">>

\* C3: once the synthesizer has run with exactly one entry in agent_outputs,
\* final_response is that entry's response and the merge oracle was not called.
C3_SingleOutputVerbatim ==
    (state.final_response # None /\ Len(state.agent_outputs) = 1) =>
        /\ state.final_response[1] = state.agent_outputs[1].value.response
        /\ ~MergeCalled

C3_Witness ==
    /\ pc = "END"
    /\ Len(state.agent_outputs) = 1
    /\ state.final_response = Some(<<"reply of", "knowledge">>)

\* C4: each capability handler is invoked at most once in a session and the
\* number of dispatches never exceeds the length of the router's plan.
C4_DispatchedAtMostOnce ==
    /\ \A agent \in AgentIds : NumCalls(agent) <= 1
    /\ router_log = None => calls = <<>>
    /\ router_log # None => Len(calls) <= Len(Plan)

\* the oracle repeated an id; the session completed with one dispatch
C4_Witness ==
    /\ pc = "returned"
    /\ Plan = <<"planner", "planner">>
    /\ Len(calls) = 1

\* C5: the plan router_node hands to the scheduler has at most 3 entries.
C5_PlanAtMostThree == router_log # None => Len(Plan) <= 3

\* C7: once a handler has raised, the session is over with that error: no
\* further dispatch, no synthesis, no final_response, no result.
C7_HandlerErrorPropagates ==
    HandlerRaised =>
        /\ pc = "raised" /\ raised = "CapabilityExecutionError"
        /\ awaiting = "none"
        /\ calls[Len(calls)].outcome = "raised"
        /\ \A i \in 1..(Len(calls) - 1) : calls[i].outcome = "returned"
        /\ ~MergeCalled
        /\ state.final_response = None
        /\ result = None

\* the second handler raised after the first completed, a third still pending
C7_Witness ==
    /\ HandlerRaised
    /\ Len(calls) = 2 /\ calls[1].outcome = "returned"
    /\ Len(state.agent_outputs) = 1
    /\ Len(state.pending_agents) >= 2

\* C8: whatever the classification oracle replies, no error of router_node's
\* own decoding and validation leaves router_node.
C8_RouterRecoversLocally ==
    raised \notin {"JSONDecodeError", "IndexError", "AttributeError", "TypeError"}

\* C9: when the text router_node hands to json.loads does not decode, the
\* plan is [analyst] and the reasoning is the fixed fallback string.
C9_UndecodableReplyFallsBack ==
    (router_response # None /\ pc # "router"
        /\ json_loads(extract_json(router_response[1]).text).raised = "JSONDecodeError") =>
        /\ pc = "analyst"
        /\ state.pending_agents = <<"analyst">>
        /\ router_log = Some([agents_to_call |-> <<"analyst">>,
                              reasoning |-> FALLBACK_REASONING])

C9_Witness ==
    /\ router_response = Some(<<Prose("I would use the analyst")>>)
    /\ pc = "analyst"
    /\ state.pending_agents = <<"analyst">>

\* C10 as stated: a failed classification-oracle call is recovered by the
\* local fallback and the session continues with the plan [analyst].
C10_ClassificationFailureFallsBack ==
    ClassificationFailed =>
        /\ raised = "none"
        /\ router_log # None /\ Plan = <<"analyst">>

\* C10 amended: a failed classification-oracle call propagates out of
\* process_query: no plan, no dispatch, no synthesis, no final_response.
C10_ClassificationFailurePropagates ==
    ClassificationFailed =>
        /\ pc = "raised" /\ raised = "ClassificationOracleError"
        /\ router_log = None
        /\ state.pending_agents = <<>>
        /\ calls = <<>>
        /\ ~MergeCalled
        /\ state.final_response = None
        /\ result = None

C10_Witness == ClassificationFailed /\ pc = "raised"

\* C6: a session whose router produced a plan and in which no handler or
\* oracle call fails returns from process_query with final_response set, and
\* no session ever uses up the recursion limit.
C6_SessionTerminates ==
    /\ [](steps < recursion_limit)
    /\ ([](raised = "none")) =>
          ((router_log # None) ~> (pc = "returned" /\ result # None
                                     /\ result[1].response # None))

\* a plan with all four capabilities completed in six graph steps
C6_Witness ==
    /\ pc = "returned"
    /\ Len(Plan) >= 4
    /\ Len(state.completed_agents) = 4
    /\ steps = 6
    /\ result[1].response # None

\* C11: when an exception has left process_query the endpoint's response is
\* the fixed apology with success false and no agents, whatever the handlers
\* had produced; when process_query returned, the response is its
\* final_response with success true and the handlers that ran, in order.
C11_ChatResponse ==
    chat_response # None =>
        /\ raised # "none" =>
              chat_response[1] = ChatResponse(APOLOGY, Some(<<>>), None, FALSE, Some(raised))
        /\ result # None =>
              /\ chat_response[1].success = TRUE
              /\ chat_response[1].error = None
              /\ chat_response[1].response = state.final_response[1]
              /\ chat_response[1].agents_used =
                    Some([i \in DOMAIN calls |-> calls[i].agent])
        /\ (raised # "none") # (result # None \/ pc = "user_not_found")

\* a handler raised after another had stored its output
C11_Witness ==
    /\ chat_response # None
    /\ HandlerRaised
    /\ Len(state.agent_outputs) >= 1
    /\ state.agent_outputs[1].value.response # <<>>
    /\ chat_response[1].response = APOLOGY

\* C12: while the planner handler runs and agent_outputs has no transaction
\* entry, the query it was given is raw_query itself.
C12_PlannerQueryUnmodified ==
    (awaiting = "planner" /\ ~DictHas(state.agent_outputs, "transaction")) =>
        calls[Len(calls)].query = state.raw_query

\* plan [planner, transaction]: the planner runs before any transaction output
C12_Witness ==
    /\ awaiting = "planner"
    /\ router_log # None /\ Plan = <<"planner", "transaction">>
    /\ state.agent_outputs = <<>>
    /\ calls[Len(calls)].query = state.raw_query

\* C13: at most one handler call is in flight; it is the last one started and
\* the one the current node awaits; every call before it has returned and its
\* output is in agent_outputs.
C13_OneHandlerInFlight ==
    /\ \A i \in DOMAIN calls :
          calls[i].outcome = "pending" => (i = Len(calls) /\ awaiting = calls[i].agent)
    /\ awaiting \in AgentIds =>
          (calls # <<>> /\ calls[Len(calls)].outcome = "pending")
    /\ \A i \in 1..(Len(calls) - 1) :
          /\ calls[i].outcome = "returned"
          /\ DictHas(state.agent_outputs, calls[i].agent)

\* the third handler is in flight, the first two have returned
C13_Witness ==
    /\ Len(calls) = 3
    /\ calls[3].outcome = "pending"
    /\ awaiting = calls[3].agent
    /\ Len(state.agent_outputs) = 2

\* the set of the elements of a list
SetOf(l) == {l[i] : i \in DOMAIN l}

NoRepeats(l) == \A i, j \in DOMAIN l : i # j => l[i] # l[j]

\* the ids of a list in the order of their first occurrence
RECURSIVE Dedup(_)
Dedup(l) ==
    IF l = <<>> THEN <<>>
    ELSE <<Head(l)>> \o Dedup(Without(Tail(l), Head(l)))

\* list(d.keys())
DictKeys(d) == [i \in DOMAIN d |-> d[i].key]

\* C14: when a session has completed, completed_agents, the agents_used that
\* process_query returns and the keys of agent_outputs in insertion order are
\* each the plan's capabilities in plan order.
C14_CompletionOrder ==
    pc \in {"END", "returned"} =>
        /\ state.completed_agents = Dedup(Plan)
        /\ DictKeys(state.agent_outputs) = Dedup(Plan)
        /\ result # None =>
              /\ result[1].agents_used = Dedup(Plan)
              /\ DictKeys(result[1].agent_outputs) = Dedup(Plan)

\* plan [transaction, planner] completed: transaction precedes planner in both
C14_Witness ==
    /\ pc = "returned"
    /\ Plan = <<"transaction", "planner">>
    /\ result[1].agents_used = <<"transaction", "planner">>
    /\ DictKeys(result[1].agent_outputs) = <<"transaction", "planner">>

\* the reply holds the text of one JSON value between an opening fence, tagged
\* or not, and a closing fence
Fenced(content) ==
    \E i, j, k \in DOMAIN content :
        /\ i < j /\ j < k
        /\ content[i] \in {FENCE, FENCE_JSON}
        /\ content[j].t = "json-text"
        /\ content[k] = FENCE

\* the JSON value whose text the reply holds
JsonOf(content) == content[CHOOSE j \in DOMAIN content : content[j].t = "json-text"].v

\* C15: router_node on a reply that wraps a JSON value in a fenced block, with
\* or without the json tag and with or without prose around it, ends as it
\* does on the bare JSON text: the same plan and reasoning, or the same error.
C15_FencedAsBare ==
    (router_response # None /\ pc # "router" /\ Fenced(router_response[1])) =>
        LET bare == router_node(initial_state(state.user_id, state.raw_query),
                                <<Json(JsonOf(router_response[1]))>>)
        IN  IF bare.raised # "none"
            THEN pc = "raised" /\ raised = bare.raised
            ELSE /\ raised = "none"
                 /\ state = bare.state
                 /\ router_log = bare.log

\* an untagged fence with prose around it
C15_Witness ==
    /\ router_response = Some(<<Prose("Sure:"), FENCE,
            Json(JsonObject(TRUE, ListVal(<<"transaction", "planner">>), TRUE, "why")),
            FENCE, Prose("Done.")>>)
    /\ pc = "transaction"
    /\ state.pending_agents = <<"transaction", "planner">>
    /\ router_log = Some([agents_to_call |-> <<"transaction", "planner">>,
                          reasoning |-> "why"])

\* C16: no capability id occurs more than once in the pending_agents that
\* router_node returns.
C16_PlanHasNoRepeats == JustRouted => NoRepeats(state.pending_agents)

\* C18: once the router has fixed the plan, the ids in pending_agents and
\* completed_agents together are the ids of the plan; no id is twice in
\* completed_agents or in both lists, and every completed id had its handler
\* run and return.
C18_PlanPartition ==
    router_log # None =>
        /\ SetOf(state.pending_agents) \cup SetOf(state.completed_agents) = SetOf(Plan)
        /\ SetOf(state.pending_agents) \cap SetOf(state.completed_agents) = {}
        /\ NoRepeats(state.completed_agents)
        /\ \A a \in SetOf(state.completed_agents) :
              \E i \in DOMAIN calls : calls[i].agent = a /\ calls[i].outcome = "returned"

\* the analyst and two more have completed, one id is still pending
C18_Witness ==
    /\ router_log # None
    /\ Len(state.completed_agents) = 3
    /\ state.completed_agents[1] = "analyst"
    /\ Len(state.pending_agents) = 1

\* C19: agent_outputs has only keys of the plan, and a step never changes or
\* removes an entry agent_outputs already has.
C19_OutputsWriteOnce ==
    /\ [](router_log = None => state.agent_outputs = <<>>)
    /\ [](router_log # None => SetOf(DictKeys(state.agent_outputs)) \subseteq SetOf(Plan))
    /\ [][\A i \in DOMAIN state.agent_outputs :
              /\ i \in DOMAIN state'.agent_outputs
              /\ state'.agent_outputs[i] = state.agent_outputs[i]]_vars

\* three entries written one after the other
C19_Witness ==
    /\ Len(state.agent_outputs) = 3
    /\ Len(calls) = 3
    /\ pc = "returned"

\* the handler call in flight returns in this step
HandlerReturns ==
    /\ calls # <<>> /\ calls[Len(calls)].outcome = "pending"
    /\ calls' = SetOutcome(calls, "returned")

\* C20: a node that is running or about to run is the head of pending_agents;
\* when a handler returns, the next node is the new head of pending_agents, or
\* the synthesizer when nothing is pending; the synthesizer runs only with
\* pending_agents empty; final_response is None until the synthesizer has run
\* and after that neither it nor the handler and oracle calls change.
C20_SchedulerOrder ==
    /\ [](pc \in AgentIds =>
            (state.pending_agents # <<>> /\ pc = state.pending_agents[1]))
    /\ [](pc = "synthesizer" => (state.pending_agents = <<>> /\ router_log # None))
    /\ [](state.final_response # None <=> pc \in {"END", "returned"})
    /\ [][HandlerReturns =>
              pc' = IF state'.pending_agents # <<>> THEN state'.pending_agents[1]
                    ELSE "synthesizer"]_vars
    /\ [][state.final_response # None =>
              /\ state' = state
              /\ calls' = calls
              /\ oracle_calls' = oracle_calls]_vars
    /\ [][(state.final_response = None /\ state'.final_response # None) =>
              (pc = "synthesizer" /\ pc' = "END")]_vars

\* two handlers ran in plan order, then the synthesizer merged their outputs
C20_Witness ==
    /\ pc = "returned"
    /\ Len(calls) = 2
    /\ MergeCalled
    /\ state.final_response = Some(<<"merged reply">>)

\* the goal and the balance row a call's arguments select
StoredGoal(st, c) == select_goal(st, c.goal_id, c.user_id)

StoredBalance(st, c) == select_balance(st, c.user_id)

\* C17: nothing makes a call's SELECT and UPDATE one unit: each UPDATE of
\* update_goal_progress and update_user_balance stores the values computed from
\* the row the call itself fetched, whatever the store holds by then, so a
\* state is reachable in which two calls have finished and the stored amount
\* has only one of the two additions.
C17_WriteFromOwnRead ==
    [][\A c \in Conns :
          (conn[c].pc = "selected" /\ conn'[c].pc = "idle"
              /\ conn'[c].log[Len(conn'[c].log)].returned # "IntegrityError") =>
              IF conn[c].fn = "update_goal_progress"
              THEN StoredGoal(store', conn[c])[1].current_amount
                       = FloatAdd(conn[c].row[1].current_amount, conn[c].amount)
              ELSE StoredBalance(store', conn[c])[1]
                       = apply_transaction(
                             IF conn[c].row = None
                             THEN BalanceRow(conn[c].user_id, 0, 0, 0)
                             ELSE conn[c].row[1],
                             conn[c].amount, conn[c].transaction_type)]_vars

\* both threads added to goal 1 and then credited the balance, each call
\* having fetched the same row as the other thread's; the goal has only the 2
\* of thread 2, the balance only the 1 of thread 1
C17_Witness ==
    /\ \A c \in Conns :
          /\ Len(conn[c].log) = 2
          /\ conn[c].log[1].fn = "update_goal_progress"
          /\ conn[c].log[1].row = Some(GoalRow(1, DB_USER, GOAL_START))
          /\ conn[c].log[1].amount = c
          /\ conn[c].log[1].returned = "True"
          /\ conn[c].log[2].fn = "update_user_balance"
          /\ conn[c].log[2].row = Some(BalanceRow(DB_USER, 10, 10, 0))
          /\ conn[c].log[2].transaction_type = "CREDIT"
          /\ conn[c].log[2].amount = c
          /\ conn[c].log[2].returned = "None"
    /\ store.goals = <<GoalRow(1, DB_USER, GOAL_START + 2)>>
    /\ store.user_balance = <<BalanceRow(DB_USER, 11, 11, 0)>>

\* C21: every call of the analyst, knowledge and transaction handlers was
\* given raw_query itself, whatever agent_outputs held when it started.
C21_OthersGetRawQuery ==
    \A i \in DOMAIN calls :
        calls[i].agent \in {"analyst", "knowledge", "transaction"} =>
            calls[i].query = state.raw_query

\* plan [planner, transaction]: the transaction handler runs after the planner
\* stored a text
C21_Witness ==
    /\ awaiting = "transaction"
    /\ DictHas(state.agent_outputs, "planner")
    /\ DictGet(state.agent_outputs, "planner").response = <<"reply of", "planner">>
    /\ calls[Len(calls)].agent = "transaction"
    /\ calls[Len(calls)].query = state.raw_query

\* the merge-oracle calls made so far
MergeCalls == SelectSeq(oracle_calls, LAMBDA c : c.oracle = "merge")

\* the labeled blocks of the handlers in the order they ran, each followed by
\* a blank line except the last
RECURSIVE BlocksInOrder(_, _)
BlocksInOrder(agents, outputs) ==
    IF agents = <<>> THEN <<>>
    ELSE <<"=== ", Upper(Head(agents)), " AGENT ===\n">>
         \o DictGet(outputs, Head(agents)).response
         \o (IF Len(agents) > 1 THEN <<"\n\n">> ELSE <<>>)
         \o BlocksInOrder(Tail(agents), outputs)

\* C22: once the synthesizer has run with more than one entry in
\* agent_outputs, the merge oracle was called exactly once, with raw_query and
\* the labeled blocks of the handlers in the order they ran, and
\* final_response is the reply that call returned.
C22_MergeOnceInOrder ==
    (state.final_response # None /\ Len(state.agent_outputs) > 1) =>
        /\ Len(MergeCalls) = 1
        /\ MergeCalls[1].input =
              <<"User query: ">> \o state.raw_query \o <<"\n\nAgent Responses:\n">>
              \o BlocksInOrder(state.completed_agents, state.agent_outputs)
        /\ MergeCalls[1].outcome = "returned"
        /\ state.final_response = MergeCalls[1].reply

\* plan [transaction, planner], both answered, the merge oracle replied
C22_Witness ==
    /\ pc = "END"
    /\ state.completed_agents = <<"transaction", "planner">>
    /\ DictGet(state.agent_outputs, "planner").response = <<"reply of", "planner">>
    /\ Len(MergeCalls) = 1
    /\ state.final_response = Some(<<"merged reply">>)

\* the reply decoded to a JSON object that has no agents_to_call field
NoAgentsField ==
    /\ router_response # None /\ pc # "router"
    /\ LET dec == json_loads(extract_json(router_response[1]).text)
       IN  dec.raised = "none" /\ dec.value.kind = "object" /\ ~dec.value.has_agents

\* the reasoning field of the object the reply decoded to
ReasoningOfReply ==
    LET dec == json_loads(extract_json(router_response[1]).text)
    IN  IF dec.value.has_reasoning THEN dec.value.reasoning ELSE ""

\* C23 as stated: an object without agents_to_call gives the plan [analyst]
\* with the fallback reasoning string, as a decode failure does.
C23_MissingFieldAsDecodeFailure ==
    NoAgentsField =>
        /\ state.pending_agents = <<"analyst">>
        /\ router_log = Some([agents_to_call |-> <<"analyst">>,
                              reasoning |-> FALLBACK_REASONING])

\* C23 amended: an object without agents_to_call gives the plan [analyst]; the
\* reasoning is the object's own reasoning field, or the empty string when it
\* has none, and never the fallback string of a decode failure.
C23_MissingFieldDefaultsPlan ==
    NoAgentsField =>
        /\ pc = "analyst" /\ raised = "none"
        /\ state.pending_agents = <<"analyst">>
        /\ state.next_agent = Some("analyst")
        /\ router_log = Some([agents_to_call |-> <<"analyst">>,
                              reasoning |-> ReasoningOfReply])
        /\ router_log[1].reasoning # FALLBACK_REASONING

\* the reply {"reasoning": "why"}
C23_Witness ==
    /\ router_response = Some(<<Json(JsonObject(FALSE, NoAgents, TRUE, "why"))>>)
    /\ pc = "analyst"
    /\ router_log = Some([agents_to_call |-> <<"analyst">>, reasoning |-> "why"])

\* C26: the synthesizer is entered only with at least one entry in
\* agent_outputs, and never directly from the router.
C26_SynthesizerHasOutputs ==
    /\ [](pc = "synthesizer" => state.agent_outputs # <<>>)
    /\ [](MergeCalled => Len(state.agent_outputs) >= 2)
    /\ [][pc = "router" => pc' # "synthesizer"]_vars

\* the reply named no valid id: the default plan ran and the synthesizer is entered
C26_Witness ==
    /\ pc = "synthesizer"
    /\ Plan = <<"analyst">>
    /\ Len(state.agent_outputs) = 1
    /\ calls[1].agent = "analyst"

\* C27: in every state of a session the keys of agent_outputs in insertion
\* order are completed_agents and next_agent is the head of pending_agents,
\* None when it is empty; what process_query returns as agents_used are the
\* keys of the outputs it returns.
C27_KeysAreCompleted ==
    /\ DictKeys(state.agent_outputs) = state.completed_agents
    /\ state.next_agent = IF state.pending_agents = <<>> THEN None
                          ELSE Some(state.pending_agents[1])
    /\ result # None =>
          /\ result[1].agents_used = DictKeys(result[1].agent_outputs)
          /\ result[1].agent_outputs = state.agent_outputs

\* after the planner, with the transaction handler still to run
C27_Witness ==
    /\ state.completed_agents = <<"analyst", "planner">>
    /\ state.pending_agents = <<"transaction">>
    /\ state.next_agent = Some("transaction")
    /\ awaiting = "none"

\* the step budget the handlers are said to have
ClaimedBudget(agent) == IF agent \in {"analyst", "knowledge"} THEN 10 ELSE 15

\* C25: a handler run never takes more steps than its budget, 10 for analyst
\* and knowledge and 15 for planner and transaction, and once started it ends,
\* by returning or by raising.
C25_HandlerWithinBudget ==
    /\ [](handler.pc # "idle" =>
            /\ handler.limit = ClaimedBudget(handler.agent)
            /\ handler.step <= ClaimedBudget(handler.agent))
    /\ []((handler.pc \in {"agent", "tools"} /\ handler.step >= ClaimedBudget(handler.agent))
            => ENABLED OutOfSteps)
    /\ (handler.pc # "idle") ~> (handler.pc \in {"returned", "raised"})

\* the planner's oracle asked for tools at every turn: the run ended with
\* GraphRecursionError after 15 steps
C25_Witness ==
    /\ handler.agent = "planner"
    /\ handler.pc = "raised"
    /\ handler.raised = "GraphRecursionError"
    /\ handler.step = 15
    /\ handler.tool_calls = 8

\* the plan session s's own router made of the reply it received
OwnPlan(s) ==
    router_node(initial_state(1, SessionQuery(s)), sessions[s].reply[1]).state.pending_agents

\* the text names the query of session s and of no other session
OnlyOf(s, text) ==
    /\ IsSubstring(SessionQuery(s), text)
    /\ \A t \in SessionIds \ {s} : ~IsSubstring(SessionQuery(t), text)

\* C24: a step of one session changes no other session; in every state each
\* session's pending_agents and completed_agents hold the ids of its own
\* router's plan, each entry of its agent_outputs is what a handler returned
\* for its own query, and its final_response is its one output's text or the
\* merge oracle's reply to its own outputs.
C24_SessionsIndependent ==
    /\ [][\A s \in SessionIds :
              sessions'[s] # sessions[s] =>
                  \A t \in SessionIds \ {s} : sessions'[t] = sessions[t]]_vars
    /\ [](\A s \in SessionIds :
            LET st == sessions[s].state
            IN  /\ st.raw_query = SessionQuery(s)
                /\ sessions[s].reply = None =>
                      (st.pending_agents = <<>> /\ st.agent_outputs = <<>>)
                /\ (sessions[s].reply # None /\ sessions[s].raised \notin
                        {"AttributeError", "TypeError"}) =>
                      SetOf(st.pending_agents) \cup SetOf(st.completed_agents)
                          = SetOf(OwnPlan(s))
                /\ DictKeys(st.agent_outputs) = st.completed_agents
                /\ \A i \in DOMAIN st.agent_outputs :
                      OnlyOf(s, st.agent_outputs[i].value.response)
                /\ st.final_response # None =>
                      st.final_response =
                          IF Len(st.agent_outputs) = 1
                          THEN Some(st.agent_outputs[1].value.response)
                          ELSE Some(MergeReplyTo(merge_input(st)))
                /\ st.final_response # None => OnlyOf(s, st.final_response[1]))

\* both coroutines are suspended at once: session 1 in the planner handler
\* after its transaction handler returned, session 2 in the merge oracle with
\* two outputs of its own
C24_Witness ==
    /\ sessions[1].awaiting = "planner"
    /\ DictKeys(sessions[1].state.agent_outputs) = <<"transaction">>
    /\ sessions[2].awaiting = "merge"
    /\ DictKeys(sessions[2].state.agent_outputs) = <<"planner", "knowledge">>

\* the user's balance row, when the ledger thread is between calls
LedgerAtRest == conn[1].pc = "idle" /\ store.user_balance # <<>>

\* C28: for a user that started with no transactions and no balance row,
\* after any sequence of add_manual_transaction and add_income calls made one
\* after the other, the stored current_balance equals total_income minus
\* total_expenses and recalculate_user_balance would store the very same
\* current_balance, total_income and total_expenses.
C28_BalanceAgreesWithRecalc ==
    LedgerAtRest =>
        LET row == select_balance(store, DB_USER)[1]
        IN  /\ row.current_balance = FloatSub(row.total_income, row.total_expenses)
            /\ recalculated_totals(store, DB_USER) = row

\* C29: add_manual_transaction is all-or-nothing: a call that ended with an
\* exception left no transaction row behind, and when no call is in progress
\* every recorded manual expense is in the user's total_expenses.
C29_AllOrNothing ==
    /\ \A c \in Conns : \A i \in DOMAIN conn[c].log :
          (conn[c].log[i].fn = "add_manual_transaction"
              /\ conn[c].log[i].returned = "IntegrityError") =>
              \A k \in DOMAIN store.transactions :
                  store.transactions[k].id # conn[c].log[i].txn_id
    /\ (\A c \in Conns : conn[c].pc = "idle") =>
          (store.transactions # <<>> =>
              /\ store.user_balance # <<>>
              /\ select_balance(store, DB_USER)[1].total_expenses
                     >= sum_amounts(store.transactions, {"DEBIT"}))

\* C30: in every reachable state the budgets table has at most one row per
\* (user, category, month), also when two threads are inside save_budget for
\* the same key.
C30_OneBudgetPerKey ==
    \A i, j \in DOMAIN store.budgets :
        (/\ store.budgets[i].user_id = store.budgets[j].user_id
         /\ store.budgets[i].category_id = store.budgets[j].category_id
         /\ store.budgets[i].month = store.budgets[j].month) => i = j

====
